---- MODULE Spec2Model ----
(***************************************************************************)
(* Model of the tkeyx25519 client (src/tkeyx25519.go): the command table,  *)
(* the request/response primitive sendCommand, the payload helper          *)
(* keyParameters and the three public operations GetAppNameVersion,        *)
(* GetPubKey and DoECDH, run against a TKey connection whose Write,        *)
(* ReadFrame and SetReadTimeout may succeed or fail.                       *)
(*                                                                         *)
(* Byte buffers are sequences of 0..255.  Go indexes from 0, TLA+ from 1:  *)
(* At(s, i) is Go's s[i], Slice(s, lo, hi) is s[lo:hi], From(s, lo) is     *)
(* s[lo:].                                                                 *)
(***************************************************************************)
EXTENDS Integers, Sequences, FiniteSets, TLC

\* ---------------------------------------------------------------------
\* Go slices
\* ---------------------------------------------------------------------
At(s, i) == s[i + 1]

Slice(s, lo, hi) == [k \in 1..(hi - lo) |-> s[lo + k]]

From(s, lo) == Slice(s, lo, Len(s))

Zeros(n) == [k \in 1..n |-> 0]

Fill(n, b) == [k \in 1..n |-> b]

\* copy(dst[off:], src): overwrite dst from offset off with as many bytes
\* of src as fit, leave the rest of dst alone.
Copy(dst, off, src) ==
  [k \in 1..Len(dst) |->
     IF k > off /\ k - off <= Len(src) THEN src[k - off] ELSE dst[k]]

\* ---------------------------------------------------------------------
\* blake2s.Sum256 (golang.org/x/crypto/blake2s, RFC 7693), unkeyed,
\* 32-byte digest.  A 32-bit word is the pair <<hi, lo>> of its 16-bit
\* halves.
\* ---------------------------------------------------------------------
W(hi, lo) == <<hi, lo>>

\* the same 8- and 16-word vectors, written out as tuples
Vec8(f) == <<f[1], f[2], f[3], f[4], f[5], f[6], f[7], f[8]>>

Vec16(f) ==
  <<f[1], f[2], f[3], f[4], f[5], f[6], f[7], f[8],
    f[9], f[10], f[11], f[12], f[13], f[14], f[15], f[16]>>

RECURSIVE Xor16(_, _)
Xor16(a, b) ==
  IF a = 0 THEN b
  ELSE IF b = 0 THEN a
  ELSE ((a + b) % 2) + 2 * Xor16(a \div 2, b \div 2)

XorW(x, y) == <<Xor16(x[1], y[1]), Xor16(x[2], y[2])>>

\* addition modulo 2^32
AddW(x, y) ==
  << (x[1] + y[1] + ((x[2] + y[2]) \div 65536)) % 65536,
     (x[2] + y[2]) % 65536 >>

\* rotate right by n bits, 0 < n <= 16
Rotr(x, n) ==
  IF n = 16 THEN <<x[2], x[1]>>
  ELSE << (x[1] \div (2 ^ n)) + (x[2] % (2 ^ n)) * (2 ^ (16 - n)),
          (x[2] \div (2 ^ n)) + (x[1] % (2 ^ n)) * (2 ^ (16 - n)) >>

BlakeIV ==
  << W(27145, 58983), W(47975, 44677), W(15470, 62322), W(42319, 62778),
     W(20750, 21119), W(39685, 26764), W(8067, 55723),  W(23520, 52505) >>

BlakeSigma ==
  << <<0, 1, 2, 3, 4, 5, 6, 7, 8, 9, 10, 11, 12, 13, 14, 15>>,
     <<14, 10, 4, 8, 9, 15, 13, 6, 1, 12, 0, 2, 11, 7, 5, 3>>,
     <<11, 8, 12, 0, 5, 2, 15, 13, 10, 14, 3, 6, 7, 1, 9, 4>>,
     <<7, 9, 3, 1, 13, 12, 11, 14, 2, 6, 5, 10, 4, 0, 15, 8>>,
     <<9, 0, 5, 7, 2, 4, 10, 15, 14, 1, 11, 12, 6, 8, 3, 13>>,
     <<2, 12, 6, 10, 0, 11, 8, 3, 4, 13, 7, 5, 15, 14, 1, 9>>,
     <<12, 5, 1, 15, 14, 13, 4, 10, 0, 7, 6, 3, 9, 2, 8, 11>>,
     <<13, 11, 7, 14, 12, 1, 3, 9, 5, 0, 15, 4, 8, 6, 2, 10>>,
     <<6, 15, 14, 9, 11, 3, 0, 8, 12, 2, 13, 7, 1, 4, 10, 5>>,
     <<10, 2, 8, 4, 7, 6, 1, 5, 15, 11, 9, 14, 3, 12, 13, 0>> >>

\* the (a, b, c, d) columns and diagonals of one round
BlakeLanes ==
  << <<0, 4, 8, 12>>, <<1, 5, 9, 13>>, <<2, 6, 10, 14>>, <<3, 7, 11, 15>>,
     <<0, 5, 10, 15>>, <<1, 6, 11, 12>>, <<2, 7, 8, 13>>, <<3, 4, 9, 14>> >>

\* Intermediate values are bound as the single element of a set rather
\* than by LET, so that each is computed once however often it is used.
The(S) == CHOOSE x \in S : TRUE

BlakeG2(v, a, b, c, d, a2, b1, c1, d1) ==
  The({ The({ The({
    Vec16([k \in 1..16 |->
             IF k = a + 1 THEN a2
             ELSE IF k = b + 1 THEN b2
             ELSE IF k = c + 1 THEN c2
             ELSE IF k = d + 1 THEN d2
             ELSE v[k]])
    : b2 \in {Rotr(XorW(b1, c2), 7)} })
    : c2 \in {AddW(c1, d2)} })
    : d2 \in {Rotr(XorW(d1, a2), 8)} })

BlakeG(v, a, b, c, d, x, y) ==
  The({ The({ The({ The({ The({
    BlakeG2(v, a, b, c, d, a2, b1, c1, d1)
    : a2 \in {AddW(AddW(a1, b1), y)} })
    : b1 \in {Rotr(XorW(At(v, b), c1), 12)} })
    : c1 \in {AddW(At(v, c), d1)} })
    : d1 \in {Rotr(XorW(At(v, d), a1), 16)} })
    : a1 \in {AddW(AddW(At(v, a), At(v, b)), x)} })

\* lanes k..8 of round r
RECURSIVE BlakeRound(_, _, _, _)
BlakeRound(v, m, r, k) ==
  IF k > 8 THEN v
  ELSE The({ BlakeRound(v1, m, r, k + 1) :
               v1 \in { BlakeG(v, BlakeLanes[k][1], BlakeLanes[k][2],
                               BlakeLanes[k][3], BlakeLanes[k][4],
                               At(m, At(BlakeSigma[r + 1], 2 * (k - 1))),
                               At(m, At(BlakeSigma[r + 1], 2 * (k - 1) + 1))) } })

\* rounds r..9
RECURSIVE BlakeRounds(_, _, _)
BlakeRounds(v, m, r) ==
  IF r > 9 THEN v
  ELSE The({ BlakeRounds(v1, m, r + 1) : v1 \in { BlakeRound(v, m, r, 1) } })

\* the 16 little-endian message words of a 64-byte block
BlakeWords(block) ==
  Vec16([i \in 1..16 |->
     W(block[4 * i] * 256 + block[4 * i - 1],
       block[4 * i - 2] * 256 + block[4 * i - 3])])

\* the work vector a compression starts from: h the chain value, t the
\* byte counter (below 2^16 here), last the finalisation flag
BlakeStart(h, t, last) ==
  Vec16([k \in 1..16 |->
           IF k <= 8 THEN h[k]
           ELSE IF k = 13 THEN XorW(BlakeIV[5], W(0, t))
           ELSE IF k = 15 /\ last THEN XorW(BlakeIV[7], W(65535, 65535))
           ELSE BlakeIV[k - 8]])

\* compression of one block
BlakeCompress(h, block, t, last) ==
  The({ Vec8([k \in 1..8 |-> XorW(h[k], XorW(v[k], v[k + 8]))]) :
          v \in { The({ BlakeRounds(v0, m, 0) :
                          v0 \in {BlakeStart(h, t, last)},
                          m \in {BlakeWords(block)} }) } })

\* all blocks from byte offset off on; the last block is zero padded
RECURSIVE BlakeBlocks(_, _, _)
BlakeBlocks(h, data, off) ==
  IF Len(data) - off <= 64
    THEN The({ BlakeCompress(h, block, Len(data), TRUE) :
                 block \in { Slice(data, off, Len(data))
                               \o Zeros(64 - (Len(data) - off)) } })
    ELSE The({ BlakeBlocks(h1, data, off + 64) :
                 h1 \in { The({ BlakeCompress(h, block, off + 64, FALSE) :
                                  block \in {Slice(data, off, off + 64)} }) } })

\* the chain value before the first block: digest length 32, no key
BlakeH0 ==
  Vec8([k \in 1..8 |->
          IF k = 1 THEN XorW(BlakeIV[1], W(257, 32)) ELSE BlakeIV[k]])

\* byte j of the little-endian encoding of word w
WordByte(w, j) ==
  IF j = 0 THEN w[2] % 256
  ELSE IF j = 1 THEN w[2] \div 256
  ELSE IF j = 2 THEN w[1] % 256
  ELSE w[1] \div 256

blake2s_Sum256(data) ==
  The({ [k \in 1..32 |-> WordByte(h[((k - 1) \div 4) + 1], (k - 1) % 4)] :
          h \in { The({ BlakeBlocks(BlakeH0, d, 0) : d \in {data} }) } })

\* ---------------------------------------------------------------------
\* Bounds of the model
\* ---------------------------------------------------------------------
\* longest domain string handed to GetPubKey / DoECDH
MaxDomainLen == 40

\* how far beyond the frame capacity a direct sendCommand payload may go
MaxOver == 2

\* ---------------------------------------------------------------------
\* Constants of the program and of the tkeyclient library it calls
\* ---------------------------------------------------------------------
UserSecretSize == 32

StatusOK == 0

StatusWrongCmdLen == 1

StatusTouchTimeout == 2

CmdLen1 == 0

CmdLen4 == 1

CmdLen32 == 2

CmdLen128 == 3

DestApp == 3

\* the request id of sendCommand
ReqId == 2

\* the bounded read deadline of GetAppNameVersion and the unbounded one
BoundedTimeout == 2

NoTimeout == 0

\* tkeyclient.CmdLen.Bytelen
Bytelen(l) ==
  IF l = CmdLen1 THEN 1
  ELSE IF l = CmdLen4 THEN 4
  ELSE IF l = CmdLen32 THEN 32
  ELSE IF l = CmdLen128 THEN 128
  ELSE 0

\* ---------------------------------------------------------------------
\* Command table
\* ---------------------------------------------------------------------
appCmd(code, name, cmdLen) == [code |-> code, name |-> name, cmdLen |-> cmdLen]

cmdGetNameVersion == appCmd(1, "cmdGetNameVersion", CmdLen1)

rspGetNameVersion == appCmd(2, "rspGetNameVersion", CmdLen32)

cmdGetPubKey == appCmd(3, "cmdGetPubKey", CmdLen128)

\* rspGetPubKey reusing the opcode of its request
rspGetPubKey_reused == appCmd(3, "rspGetPubKey", CmdLen128)

rspGetPubKey == appCmd(4, "rspGetPubKey", CmdLen128)

\* cmdDoECDH in the 32-byte length class
cmdDoECDH_len32 == appCmd(5, "cmdDoECDH", CmdLen32)

cmdDoECDH == appCmd(5, "cmdDoECDH", CmdLen128)

rspDoECDH == appCmd(6, "rspDoECDH", CmdLen128)

\* appCmd.Endpoint
Endpoint(c) == DestApp

CommandTable ==
  [ cmdGetNameVersion |-> cmdGetNameVersion,
    rspGetNameVersion |-> rspGetNameVersion,
    cmdGetPubKey      |-> cmdGetPubKey,
    rspGetPubKey      |-> rspGetPubKey,
    cmdDoECDH         |-> cmdDoECDH,
    rspDoECDH         |-> rspDoECDH ]

\* ---------------------------------------------------------------------
\* Errors and results
\* ---------------------------------------------------------------------
\* kind names the error built by the code, cause the wrapped error (%w),
\* code the status byte of a ResponseStatusNotOKError
Err(kind, cause, code) == [kind |-> kind, cause |-> cause, code |-> code]

NoErr == Err("nil", "", 0)

Nil == <<>>

\* ResponseStatusNotOKError.Code
Code(e) == e.code

\* ---------------------------------------------------------------------
\* tkeyclient: frames
\* ---------------------------------------------------------------------
\* frame header byte: id << 5 | endpoint << 3 | cmdlen
FrameHdr(id, endpoint, cmdLen) == (id * 32 + endpoint * 8 + cmdLen) % 256

\* tkeyclient.NewFrameBuf
NewFrameBuf(cmd, id) ==
  IF id > 3 \/ Endpoint(cmd) > 3 \/ cmd.cmdLen > 3
    THEN [err |-> Err("NewFrameBuf", "bad frame parameters", 0), buf |-> Nil]
    ELSE [err |-> NoErr,
          buf |-> <<FrameHdr(id, Endpoint(cmd), cmd.cmdLen), cmd.code>>
                    \o Zeros(1 + Bytelen(cmd.cmdLen) - 2)]

\* tkeyclient.TillitisKey.ReadFrame on the bytes the device put on the
\* wire (Nil: nothing arrived before the deadline, or the read failed)
ReadFrame(wire, expectedResp, expectedID) ==
  IF wire = Nil
    THEN [err |-> Err("ReadFrame", "Read timeout", 0), rx |-> Nil]
  ELSE LET hdr == At(wire, 0)
       IN  IF hdr >= 128
             THEN [err |-> Err("ReadFrame", "reserved bit", 0), rx |-> Nil]
           ELSE IF (hdr \div 4) % 2 = 1
             THEN [err |-> Err("ReadFrame", "response status not OK", 0),
                   rx |-> Nil]
           ELSE IF hdr % 4 # expectedResp.cmdLen
                   \/ (hdr \div 8) % 4 # Endpoint(expectedResp)
                   \/ (hdr \div 32) % 4 # expectedID
             THEN [err |-> Err("ReadFrame", "header mismatch", 0), rx |-> Nil]
           ELSE IF At(wire, 1) # expectedResp.code
             THEN [err |-> Err("ReadFrame", "code mismatch", 0), rx |-> Nil]
           ELSE [err |-> NoErr, rx |-> wire]

\* tkeyclient.NameVersion.Unpack: two 4-byte names and a little-endian
\* 32-bit version, kept as its two 16-bit halves
Unpack(raw) ==
  << Slice(raw, 0, 4), Slice(raw, 4, 8),
     W(At(raw, 11) * 256 + At(raw, 10), At(raw, 9) * 256 + At(raw, 8)) >>

\* ---------------------------------------------------------------------
\* Pure helpers of the client
\* ---------------------------------------------------------------------
RECURSIVE Or8(_, _)
Or8(a, b) ==
  IF a = 0 THEN b
  ELSE IF b = 0 THEN a
  ELSE (IF a % 2 = 1 \/ b % 2 = 1 THEN 1 ELSE 0) + 2 * Or8(a \div 2, b \div 2)

\* the accumulator of isAllZero after bytes[0..n-1]
RECURSIVE OrAccu(_, _)
OrAccu(bytes, n) ==
  IF n = 0 THEN 0 ELSE Or8(OrAccu(bytes, n - 1), bytes[n])

\* isAllZero with "accu = b" for "accu |= b": only the last byte counts
isAllZero_lastByte(bytes) == Len(bytes) = 0 \/ bytes[Len(bytes)] = 0

isAllZero(bytes) == OrAccu(bytes, Len(bytes)) = 0

\* utf8.Valid from byte i (counted from 1) on
RECURSIVE ValidUTF8From(_, _)
ValidUTF8From(b, i) ==
  IF i > Len(b) THEN TRUE
  ELSE LET c       == b[i]
           cont(j) == j <= Len(b) /\ b[j] >= 128 /\ b[j] <= 191
           in(j, lo, hi) == j <= Len(b) /\ b[j] >= lo /\ b[j] <= hi
       IN  IF c < 128 THEN ValidUTF8From(b, i + 1)
           ELSE IF c >= 194 /\ c <= 223
             THEN cont(i + 1) /\ ValidUTF8From(b, i + 2)
           ELSE IF c >= 224 /\ c <= 239
             THEN /\ in(i + 1, IF c = 224 THEN 160 ELSE 128,
                        IF c = 237 THEN 159 ELSE 191)
                  /\ cont(i + 2)
                  /\ ValidUTF8From(b, i + 3)
           ELSE IF c >= 240 /\ c <= 244
             THEN /\ in(i + 1, IF c = 240 THEN 144 ELSE 128,
                        IF c = 244 THEN 143 ELSE 191)
                  /\ cont(i + 2)
                  /\ cont(i + 3)
                  /\ ValidUTF8From(b, i + 4)
           ELSE FALSE

ValidUTF8(b) == ValidUTF8From(b, 1)

\* keyParameters giving up, with an empty buffer, on a domain string that
\* is not valid UTF-8
keyParameters_rejectInvalid(domainString, userSecret, requireTouch) ==
  IF ~ValidUTF8(domainString) THEN <<>>
  ELSE LET domain == IF Len(domainString) > 32
                       THEN blake2s_Sum256(domainString)
                       ELSE Copy(Zeros(32), 0, domainString)
       IN  domain \o userSecret \o <<IF requireTouch THEN 1 ELSE 0>>

\* keyParameters hashing every domain string, short ones too
keyParameters_alwaysHash(domainString, userSecret, requireTouch) ==
  blake2s_Sum256(domainString) \o userSecret
    \o <<IF requireTouch THEN 1 ELSE 0>>

\* keyParameters hashing from 32 bytes on (>= for >)
keyParameters_ge32(domainString, userSecret, requireTouch) ==
  LET domain == IF Len(domainString) >= 32
                  THEN blake2s_Sum256(domainString)
                  ELSE Copy(Zeros(32), 0, domainString)
  IN  domain \o userSecret \o <<IF requireTouch THEN 1 ELSE 0>>

\* keyParameters writing the user secret before the domain
keyParameters_secretFirst(domainString, userSecret, requireTouch) ==
  LET domain == IF Len(domainString) > 32
                  THEN blake2s_Sum256(domainString)
                  ELSE Copy(Zeros(32), 0, domainString)
  IN  userSecret \o domain \o <<IF requireTouch THEN 1 ELSE 0>>

keyParameters(domainString, userSecret, requireTouch) ==
  LET domain == IF Len(domainString) > 32
                  THEN blake2s_Sum256(domainString)
                  ELSE Copy(Zeros(32), 0, domainString)
  IN  domain \o userSecret \o <<IF requireTouch THEN 1 ELSE 0>>

\* sendCommand stamping the frame with another id than it reads with
sendCommand_frame_otherId(c, d) ==
  LET f == NewFrameBuf(c, 1)
  IN  IF f.err # NoErr
        THEN [err |-> Err("NewFrameBuf", f.err.cause, 0), tx |-> Nil]
      ELSE IF Len(d) > Len(f.buf) - 2
        THEN [err |-> Err("data too large", "", 0), tx |-> Nil]
      ELSE [err |-> NoErr, tx |-> Copy(f.buf, 2, d)]

\* sendCommand copying the payload over the opcode byte (tx[1:])
sendCommand_frame_copyAt1(c, d) ==
  LET f == NewFrameBuf(c, ReqId)
  IN  IF f.err # NoErr
        THEN [err |-> Err("NewFrameBuf", f.err.cause, 0), tx |-> Nil]
      ELSE IF Len(d) > Len(f.buf) - 2
        THEN [err |-> Err("data too large", "", 0), tx |-> Nil]
      ELSE [err |-> NoErr, tx |-> Copy(f.buf, 1, d)]

\* sendCommand comparing the payload with the whole frame length
sendCommand_frame_noHeaderRoom(c, d) ==
  LET f == NewFrameBuf(c, ReqId)
  IN  IF f.err # NoErr
        THEN [err |-> Err("NewFrameBuf", f.err.cause, 0), tx |-> Nil]
      ELSE IF Len(d) > Len(f.buf)
        THEN [err |-> Err("data too large", "", 0), tx |-> Nil]
      ELSE [err |-> NoErr, tx |-> Copy(f.buf, 2, d)]

\* sendCommand up to the Write: the frame to write, or the error
sendCommand_frame(c, d) ==
  LET f == NewFrameBuf(c, ReqId)
  IN  IF f.err # NoErr
        THEN [err |-> Err("NewFrameBuf", f.err.cause, 0), tx |-> Nil]
      ELSE IF Len(d) > Len(f.buf) - 2
        THEN [err |-> Err("data too large", "", 0), tx |-> Nil]
      ELSE [err |-> NoErr, tx |-> Copy(f.buf, 2, d)]

\* sendCommand reporting the opcode byte rx[1] as the status code
sendCommand_result_codeOff(r, frame) ==
  IF r.code = rspGetNameVersion.code
    THEN [val |-> From(frame, 2), err |-> NoErr]
  ELSE IF At(frame, 2) # StatusOK
    THEN [val |-> Nil, err |-> Err("ResponseStatusNotOK", "", At(frame, 1))]
  ELSE [val |-> From(frame, 3), err |-> NoErr]

\* sendCommand interpreting the status byte of every response, the
\* identity-query response included
sendCommand_result_alwaysStatus(r, frame) ==
  IF At(frame, 2) # StatusOK
    THEN [val |-> Nil, err |-> Err("ResponseStatusNotOK", "", At(frame, 2))]
  ELSE [val |-> From(frame, 3), err |-> NoErr]

\* sendCommand looking for an all-zero payload before it looks at the
\* status byte
sendCommand_result_zeroFirst(r, frame) ==
  IF r.code = rspGetNameVersion.code
    THEN [val |-> From(frame, 2), err |-> NoErr]
  ELSE IF isAllZero(Slice(frame, 3, 35))
    THEN [val |-> Nil, err |-> Err("all-zero", "", 0)]
  ELSE IF At(frame, 2) # StatusOK
    THEN [val |-> Nil, err |-> Err("ResponseStatusNotOK", "", At(frame, 2))]
  ELSE [val |-> From(frame, 3), err |-> NoErr]

\* sendCommand after a successful ReadFrame: status interpretation
sendCommand_result(r, frame) ==
  IF r.code = rspGetNameVersion.code
    THEN [val |-> From(frame, 2), err |-> NoErr]
  ELSE IF At(frame, 2) # StatusOK
    THEN [val |-> Nil, err |-> Err("ResponseStatusNotOK", "", At(frame, 2))]
  ELSE [val |-> From(frame, 3), err |-> NoErr]

\* GetPubKey returning rx[1:33]
GetPubKey_result_shifted(r) == [val |-> Slice(r, 1, 33), err |-> NoErr]

\* GetPubKey after sendCommand returned rx without error
GetPubKey_result(r) == [val |-> Slice(r, 0, 32), err |-> NoErr]

\* DoECDH after sendCommand returned rx without error
DoECDH_result(r) ==
  LET sharedSecret == Slice(r, 0, 32)
  IN  IF isAllZero(sharedSecret)
        THEN [val |-> Nil, err |-> Err("all-zero", "", 0)]
        ELSE [val |-> sharedSecret, err |-> NoErr]

\* ---------------------------------------------------------------------
\* Inputs of the operations and behaviour of the transport and the device
\* ---------------------------------------------------------------------
Ramp(n, base) == [k \in 1..n |-> base + k - 1]

DomainStrings ==
  { <<>>, <<120>>, <<120, 0>>, <<0>>, <<255, 254>> }
    \cup { Fill(n, 97) : n \in {31, 32, 33, MaxDomainLen} }

UserSecrets == { Zeros(UserSecretSize), Ramp(UserSecretSize, 1) }

PeerKeys == { Zeros(32), Ramp(32, 100) }

\* "" is success, anything else the error the transport call returns
WriteOutcomes == {"", "EIO"}

TimeoutOutcomes == {"", "EINVAL"}

StatusBytes == {StatusOK, StatusWrongCmdLen, StatusTouchTimeout, 255}

Bodies ==
  { Zeros(32), Ramp(32, 0), Zeros(31) \o <<1>>, <<128>> \o Zeros(31),
    Fill(32, 255) }

Tails == { Zeros(96), Fill(96, 7) }

\* a frame the device sends: header, opcode, then content cut or zero
\* padded to the frame size of the length class
DeviceFrame(id, cmdLen, code, content) ==
  LET n == Bytelen(cmdLen) - 1
  IN  <<FrameHdr(id, DestApp, cmdLen), code>>
        \o Slice(content \o Zeros(n), 0, n)

\* the device app answers request opcode c with opcode c + 1, in the
\* length class of that response, echoing the request id
ReplyLen(code) == IF code = cmdGetNameVersion.code THEN CmdLen32 ELSE CmdLen128

\* what ReadFrame may find on the wire after request frame t was written
DeviceAnswers(t) ==
  LET id   == (At(t, 0) \div 32) % 4
      code == At(t, 1)
      good == { DeviceFrame(id, ReplyLen(code), code + 1, <<st>> \o b \o tl) :
                  st \in StatusBytes, b \in Bodies, tl \in Tails }
      bad  == { DeviceFrame((id + 1) % 4, ReplyLen(code), code + 1, Zeros(1)),
                DeviceFrame(id, ReplyLen(code), code, Zeros(1)),
                DeviceFrame(id, CmdLen4, code + 1, Zeros(1)),
                <<FrameHdr(id, DestApp, ReplyLen(code)) + 4, code + 1>>
                  \o Zeros(Bytelen(ReplyLen(code)) - 1) }
  IN  {Nil} \cup good \cup bad

\* ---------------------------------------------------------------------
\* State
\* ---------------------------------------------------------------------
VARIABLES
  pc,       \* where the client is: "idle", "write" (sendCommand before its
            \* Write), "read" (before its ReadFrame), "restore"
            \* (GetAppNameVersion before SetReadTimeout(0)), "done" (returned)
  op,       \* the operation in progress or just returned
  args,     \* its arguments
  cmd,      \* sendCommand's cmd
  data,     \* sendCommand's data
  rsp,      \* sendCommand's rsp
  tx,       \* the frame Write put on the wire in this call, Nil before
  rx,       \* the frame ReadFrame returned in this call, Nil before
  res,      \* what sendCommand returned to GetAppNameVersion
  timeout,  \* the connection's read deadline in seconds, 0 = none
  log,      \* the transport calls of this call, in order
  ret,      \* what the operation returned
  table     \* the package-level command descriptors

vars == <<pc, op, args, cmd, data, rsp, tx, rx, res, timeout, log, ret, table>>

NoArgs == [domainString |-> <<>>, userSecret |-> <<>>, requireTouch |-> FALSE,
           theirPubKey |-> <<>>]

NoCmd == appCmd(0, "", 0)

NoRet == [val |-> Nil, nv |-> Nil, err |-> NoErr]

\* one transport call: the method, the opcode of the frame or descriptor,
\* the request id, the argument of SetReadTimeout, the frame written, the
\* read deadline in force when the call was made, the error it returned
\* ("" for none) and whether it succeeded
Called(call, code, id, arg, frame, err) ==
  [call |-> call, code |-> code, id |-> id, arg |-> arg, frame |-> frame,
   timeout |-> timeout, err |-> err, ok |-> err = ""]

Init ==
  /\ pc = "idle"
  /\ op = "none"
  /\ args = NoArgs
  /\ cmd = NoCmd
  /\ data = <<>>
  /\ rsp = NoCmd
  /\ tx = Nil
  /\ rx = Nil
  /\ res = Nil
  /\ timeout = NoTimeout
  /\ log = <<>>
  /\ ret = NoRet
  /\ table = CommandTable

\* the operation returns (val, nv, err) to its caller
Return(val, nv, err) ==
  /\ pc' = "done"
  /\ ret' = [val |-> val, nv |-> nv, err |-> err]

\* entry into sendCommand(c, d, r)
Enter(o, a, c, d, r) ==
  /\ pc' = "write"
  /\ op' = o
  /\ args' = a
  /\ cmd' = c
  /\ data' = d
  /\ rsp' = r
  /\ UNCHANGED <<tx, rx, res, ret, table>>

\* ---------------------------------------------------------------------
\* Operations
\* ---------------------------------------------------------------------
\* GetAppNameVersion going on to sendCommand whether or not
\* SetReadTimeout(2) succeeded
GetAppNameVersion_ignoreErr ==
  /\ pc = "idle"
  /\ \E cause \in TimeoutOutcomes :
       /\ log' = <<Called("SetReadTimeout", 0, 0, BoundedTimeout, Nil, cause)>>
       /\ timeout' = (IF cause = "" THEN BoundedTimeout ELSE timeout)
       /\ Enter("GetAppNameVersion", NoArgs, table.cmdGetNameVersion,
                <<>>, table.rspGetNameVersion)

\* GetAppNameVersion up to its call of sendCommand.  A SetReadTimeout that
\* returns an error leaves the connection's read deadline as it was.
GetAppNameVersion ==
  /\ pc = "idle"
  /\ \E cause \in TimeoutOutcomes :
       /\ log' = <<Called("SetReadTimeout", 0, 0, BoundedTimeout, Nil, cause)>>
       /\ IF cause # ""
            THEN /\ Return(Nil, Nil, Err("SetReadTimeout", cause, 0))
                 /\ op' = "GetAppNameVersion"
                 /\ UNCHANGED <<args, cmd, data, rsp, tx, rx, res, timeout, table>>
            ELSE /\ timeout' = BoundedTimeout
                 /\ Enter("GetAppNameVersion", NoArgs, table.cmdGetNameVersion,
                          <<>>, table.rspGetNameVersion)

\* GetPubKey reading with the response descriptor of DoECDH
GetPubKey_wrongRsp ==
  /\ pc = "idle"
  /\ \E domainString \in DomainStrings, userSecret \in UserSecrets,
        requireTouch \in BOOLEAN :
       Enter("GetPubKey",
             [domainString |-> domainString, userSecret |-> userSecret,
              requireTouch |-> requireTouch, theirPubKey |-> <<>>],
             table.cmdGetPubKey,
             keyParameters(domainString, userSecret, requireTouch),
             table.rspDoECDH)
  /\ log' = <<>>
  /\ UNCHANGED timeout

\* GetPubKey up to its call of sendCommand
GetPubKey ==
  /\ pc = "idle"
  /\ \E domainString \in DomainStrings, userSecret \in UserSecrets,
        requireTouch \in BOOLEAN :
       Enter("GetPubKey",
             [domainString |-> domainString, userSecret |-> userSecret,
              requireTouch |-> requireTouch, theirPubKey |-> <<>>],
             table.cmdGetPubKey,
             keyParameters(domainString, userSecret, requireTouch),
             table.rspGetPubKey)
  /\ log' = <<>>
  /\ UNCHANGED timeout

\* DoECDH up to its call of sendCommand
DoECDH ==
  /\ pc = "idle"
  /\ \E domainString \in DomainStrings, userSecret \in UserSecrets,
        requireTouch \in BOOLEAN, theirPubKey \in PeerKeys :
       Enter("DoECDH",
             [domainString |-> domainString, userSecret |-> userSecret,
              requireTouch |-> requireTouch, theirPubKey |-> theirPubKey],
             table.cmdDoECDH,
             keyParameters(domainString, userSecret, requireTouch)
               \o theirPubKey,
             table.rspDoECDH)
  /\ log' = <<>>
  /\ UNCHANGED timeout

\* sendCommand trying the Write again after it failed
sendCommand_Write_retry ==
  /\ pc = "write"
  /\ LET f == sendCommand_frame(cmd, data)
     IN  IF f.err # NoErr
           THEN /\ Return(Nil, Nil, f.err)
                /\ UNCHANGED <<tx, log>>
           ELSE \E cause \in WriteOutcomes :
                  /\ log' = Append(log, Called("Write", At(f.tx, 1), ReqId, 0,
                                               f.tx, cause))
                  /\ IF cause # ""
                       THEN /\ IF Len(log) < 2
                                 THEN pc' = "write" /\ UNCHANGED ret
                                 ELSE Return(Nil, Nil, Err("Write", cause, 0))
                            /\ UNCHANGED tx
                       ELSE /\ tx' = f.tx
                            /\ pc' = "read"
                            /\ UNCHANGED ret
  /\ UNCHANGED <<op, args, cmd, data, rsp, rx, res, timeout, table>>

\* sendCommand: build the frame, check the payload length, Write
sendCommand_Write ==
  /\ pc = "write"
  /\ LET f == sendCommand_frame(cmd, data)
     IN  IF f.err # NoErr
           THEN /\ Return(Nil, Nil, f.err)
                /\ UNCHANGED <<tx, log>>
           ELSE \E cause \in WriteOutcomes :
                  /\ log' = Append(log, Called("Write", At(f.tx, 1), ReqId, 0,
                                               f.tx, cause))
                  /\ IF cause # ""
                       THEN /\ Return(Nil, Nil, Err("Write", cause, 0))
                            /\ UNCHANGED tx
                       ELSE /\ tx' = f.tx
                            /\ pc' = "read"
                            /\ UNCHANGED ret
  /\ UNCHANGED <<op, args, cmd, data, rsp, rx, res, timeout, table>>

\* sendCommand: ReadFrame and the interpretation of the response, then the
\* rest of the calling operation (GetAppNameVersion goes on to restore
\* the read deadline)
sendCommand_Read ==
  /\ pc = "read"
  /\ \E wire \in DeviceAnswers(tx) :
       LET r == ReadFrame(wire, rsp, ReqId)
           s == sendCommand_result(rsp, r.rx)
       IN  /\ log' = Append(log, Called("ReadFrame", rsp.code, ReqId, 0, Nil,
                                        r.err.cause))
           /\ rx' = r.rx
           /\ IF r.err # NoErr
                THEN /\ Return(Nil, Nil, Err("ReadFrame", r.err.cause, 0))
                     /\ UNCHANGED res
              ELSE IF s.err # NoErr
                THEN /\ Return(Nil, Nil, s.err)
                     /\ UNCHANGED res
              ELSE IF op = "GetAppNameVersion"
                THEN /\ pc' = "restore"
                     /\ res' = s.val
                     /\ UNCHANGED ret
              ELSE IF op = "GetPubKey"
                THEN /\ Return(GetPubKey_result(s.val).val, Nil,
                               GetPubKey_result(s.val).err)
                     /\ UNCHANGED res
              ELSE IF op = "DoECDH"
                THEN /\ Return(DoECDH_result(s.val).val, Nil,
                               DoECDH_result(s.val).err)
                     /\ UNCHANGED res
              ELSE /\ Return(s.val, Nil, NoErr)
                   /\ UNCHANGED res
  /\ UNCHANGED <<op, args, cmd, data, rsp, tx, timeout, table>>

\* GetAppNameVersion returning the name and version although restoring
\* the read deadline failed
GetAppNameVersion_Restore_lenient ==
  /\ pc = "restore"
  /\ \E cause \in TimeoutOutcomes :
       /\ log' = Append(log, Called("SetReadTimeout", 0, 0, NoTimeout, Nil,
                                    cause))
       /\ timeout' = (IF cause = "" THEN NoTimeout ELSE timeout)
       /\ Return(Nil, Unpack(Slice(res, 0, 12)), NoErr)
  /\ UNCHANGED <<op, args, cmd, data, rsp, tx, rx, res, table>>

\* GetAppNameVersion after sendCommand returned without error
GetAppNameVersion_Restore ==
  /\ pc = "restore"
  /\ \E cause \in TimeoutOutcomes :
       /\ log' = Append(log, Called("SetReadTimeout", 0, 0, NoTimeout, Nil,
                                    cause))
       /\ IF cause # ""
            THEN /\ Return(Nil, Nil, Err("SetReadTimeout", cause, 0))
                 /\ UNCHANGED timeout
            ELSE /\ timeout' = NoTimeout
                 /\ Return(Nil, Unpack(Slice(res, 0, 12)), NoErr)
  /\ UNCHANGED <<op, args, cmd, data, rsp, tx, rx, res, table>>

\* a direct call of sendCommand with any descriptors and payload
PayloadLens(c) ==
  LET cap == 1 + Bytelen(c.cmdLen) - 2
  IN  {n \in {0, 1, 65, 97, cap - 1} : n <= cap} \cup (cap..(cap + MaxOver))

sendCommand ==
  /\ pc = "idle"
  /\ \E c \in {table.cmdGetNameVersion, table.cmdGetPubKey, table.cmdDoECDH},
        r \in {table.rspGetNameVersion, table.rspGetPubKey, table.rspDoECDH} :
       \E n \in PayloadLens(c) :
         Enter("sendCommand", NoArgs, c, Fill(n, 9), r)
  /\ log' = <<>>
  /\ UNCHANGED timeout

\* the caller has the result; nothing of the call is kept but the
\* connection
CallerNext ==
  /\ pc = "done"
  /\ pc' = "idle"
  /\ op' = "none"
  /\ args' = NoArgs
  /\ cmd' = NoCmd
  /\ data' = <<>>
  /\ rsp' = NoCmd
  /\ tx' = Nil
  /\ rx' = Nil
  /\ res' = Nil
  /\ log' = <<>>
  /\ ret' = NoRet
  /\ UNCHANGED <<timeout, table>>

Next ==
  \/ GetAppNameVersion
  \/ GetPubKey
  \/ DoECDH
  \/ sendCommand_Write
  \/ sendCommand_Read
  \/ GetAppNameVersion_Restore
  \/ CallerNext

Spec == Init /\ [][Next]_vars

\* sendCommand called directly, with payloads up to and beyond the frame
\* capacity and any pairing of descriptors
NextSend ==
  \/ sendCommand
  \/ sendCommand_Write
  \/ sendCommand_Read
  \/ CallerNext

SpecSend == Init /\ [][NextSend]_vars

\* ---------------------------------------------------------------------
\* Properties
\* ---------------------------------------------------------------------
PublicOps == {"GetAppNameVersion", "GetPubKey", "DoECDH"}

KeyOps == {"GetPubKey", "DoECDH"}

\* the Write and ReadFrame calls of the current call, in order
IsIO(e) == e.call \in {"Write", "ReadFrame"}

IO == SelectSeq(log, IsIO)

\* ReadFrame succeeded in this call and the response carries status st
Answered(st) == rx # Nil /\ At(rx, 2) = st

\* the 32 bytes that follow the status byte of the response
Body == Slice(rx, 3, 35)

\* C1: whenever GetAppNameVersion has set the read deadline to 2 and has
\* returned, with a result or with any error, the read deadline is 0.
C1_DeadlineRestored ==
  ( /\ pc = "done"
    /\ op = "GetAppNameVersion"
    /\ Len(log) >= 1
    /\ log[1].call = "SetReadTimeout"
    /\ log[1].arg = BoundedTimeout
    /\ log[1].ok )
  => timeout = NoTimeout

\* C2: when the device answers DoECDH with status OK, DoECDH fails with
\* the degenerate-secret error and returns no secret if the 32 secret
\* bytes are all zero, and otherwise returns exactly those 32 bytes.
C2_DegenerateSecret ==
  (pc = "done" /\ op = "DoECDH" /\ Answered(StatusOK))
  => IF \A k \in 1..32 : Body[k] = 0
       THEN ret.err.kind = "all-zero" /\ ret.val = Nil
       ELSE ret.err = NoErr /\ ret.val = Body

C2_Witness ==
  /\ pc = "done"
  /\ op = "DoECDH"
  /\ Answered(StatusOK)
  /\ Body = Zeros(32)
  /\ At(rx, 40) # 0
  /\ args.theirPubKey # Zeros(32)
  /\ ret.err.kind = "all-zero"

\* C3: a response to GetPubKey or DoECDH whose status byte is not OK makes
\* the operation fail with a ResponseStatusNotOKError carrying exactly that
\* byte, and the operation returns no payload bytes.
C3_StatusNotOK ==
  (pc = "done" /\ op \in KeyOps /\ rx # Nil /\ At(rx, 2) # StatusOK)
  => /\ ret.err.kind = "ResponseStatusNotOK"
     /\ Code(ret.err) = At(rx, 2)
     /\ ret.val = Nil

C3_Witness ==
  /\ pc = "done"
  /\ op = "DoECDH"
  /\ Answered(255)
  /\ Body = Ramp(32, 0)
  /\ Code(ret.err) = 255
  /\ ret.val = Nil

\* C4: every ReadFrame issued by GetPubKey or DoECDH is made while the
\* connection's read deadline is 0 (unbounded).
C4_KeyOpsReadUnbounded ==
  op \in KeyOps =>
    \A i \in 1..Len(log) :
      log[i].call = "ReadFrame" => log[i].timeout = NoTimeout

\* C5: sendCommand with a payload longer than the request frame length
\* minus 2 returns the data-too-large error without calling Write or
\* ReadFrame and leaves the connection as it was.
C5_OversizedNoWrite ==
  [][ (pc = "write" /\ Len(data) > (1 + Bytelen(cmd.cmdLen)) - 2)
      => /\ pc' = "done"
         /\ ret'.err.kind = "data too large"
         /\ ret'.val = Nil
         /\ log' = <<>>
         /\ tx' = Nil
         /\ rx' = Nil
         /\ timeout' = timeout ]_vars

C5_Witness ==
  /\ pc = "done"
  /\ op = "sendCommand"
  /\ cmd = cmdGetPubKey
  /\ Len(data) = 128
  /\ ret.err.kind = "data too large"
  /\ log = <<>>

\* C6: a public operation never issues more than one Write or more than
\* one ReadFrame, issues the ReadFrame only after its Write succeeded and
\* with the response descriptor paired with the request written, and a call
\* that returns after a successful Write has issued exactly one ReadFrame.
C6_OneWriteThenOneRead ==
  op \in PublicOps =>
    LET reqCode == IF op = "GetAppNameVersion" THEN 1
                   ELSE IF op = "GetPubKey" THEN 3 ELSE 5
    IN  /\ Len(IO) <= 2
        /\ Len(IO) >= 1 => /\ IO[1].call = "Write"
                           /\ IO[1].code = reqCode
                           /\ At(IO[1].frame, 1) = reqCode
        /\ Len(IO) = 2 => /\ IO[1].ok
                          /\ IO[2].call = "ReadFrame"
                          /\ IO[2].code = reqCode + 1
        /\ pc = "done" =>
             /\ Len(IO) = 0 <=> (ret.err.kind = "SetReadTimeout" /\ Len(log) = 1)
             /\ (Len(IO) = 1 <=> ret.err.kind = "Write")
             /\ (ret.err = NoErr => Len(IO) = 2 /\ IO[2].ok)

C6_Witness ==
  /\ pc = "done"
  /\ op = "GetPubKey"
  /\ ret.err = NoErr
  /\ Len(log) = 2
  /\ log[1].call = "Write" /\ log[1].ok
  /\ log[2].call = "ReadFrame" /\ log[2].ok /\ log[2].code = 4

\* digest of 33 bytes 'a' computed by an independent blake2s
Ref33 ==
  << 197, 99, 15, 64, 32, 166, 225, 5, 149, 97, 53, 232, 0, 220, 252, 85,
     217, 84, 203, 179, 218, 140, 242, 12, 128, 68, 242, 199, 198, 172, 0,
     167 >>

\* C7: the folded domain field is always 32 bytes; for a domain string of
\* at most 32 bytes it is the string left-aligned followed by zero bytes,
\* for a longer one it is the blake2s digest of the string.
C7_DomainFolding ==
  (pc = "write" /\ op \in KeyOps) =>
    LET d     == args.domainString
        field == Slice(data, 0, 32)
    IN  /\ Len(data) >= 32
        /\ Len(d) <= 32 =>
             \A k \in 1..32 : field[k] = IF k <= Len(d) THEN d[k] ELSE 0
        /\ Len(d) > 32 => field = blake2s_Sum256(d)
        /\ d = Fill(33, 97) => field = Ref33

C7_Witness ==
  /\ pc = "write"
  /\ op = "GetPubKey"
  /\ args.domainString = Fill(33, 97)
  /\ Slice(data, 0, 32) = Ref33

\* the folded domain as the specification states it
Fold(d) == IF Len(d) <= 32 THEN d \o Zeros(32 - Len(d)) ELSE blake2s_Sum256(d)

\* C8: the payload in the request frame is fold(domain), then the secret,
\* then one touch byte that is 0 or 1, then for DoECDH only the peer key,
\* with no gap: 65 bytes for GetPubKey and 97 for DoECDH.
C8_PayloadLayout ==
  (pc = "read" /\ op \in KeyOps) =>
    /\ Slice(tx, 2, 34) = Fold(args.domainString)
    /\ Slice(tx, 34, 66) = args.userSecret
    /\ At(tx, 66) = (IF args.requireTouch THEN 1 ELSE 0)
    /\ op = "GetPubKey" => /\ Len(data) = 65
                           /\ Slice(tx, 2, 67) = data
                           /\ From(tx, 67) = Zeros(Len(tx) - 67)
    /\ op = "DoECDH" => /\ Len(data) = 97
                        /\ Slice(tx, 2, 99) = data
                        /\ Slice(tx, 67, 99) = args.theirPubKey
                        /\ From(tx, 99) = Zeros(Len(tx) - 99)

C8_Witness ==
  /\ pc = "read"
  /\ op = "DoECDH"
  /\ args.domainString = <<120>>
  /\ args.userSecret = Ramp(32, 1)
  /\ args.requireTouch
  /\ args.theirPubKey = Ramp(32, 100)
  /\ Slice(tx, 2, 99) = <<120>> \o Zeros(31) \o Ramp(32, 1) \o <<1>> \o Ramp(32, 100)

\* C9: on a response with status OK GetPubKey returns frame bytes 3..34
\* unchanged, whatever they are, all-zero included.
C9_PubKeyUnchanged ==
  (pc = "done" /\ op = "GetPubKey" /\ Answered(StatusOK))
  => ret.err = NoErr /\ ret.val = Body

C9_Witness ==
  /\ pc = "done"
  /\ op = "GetPubKey"
  /\ Answered(StatusOK)
  /\ Body = Zeros(32)
  /\ ret.val = Zeros(32)
  /\ ret.err = NoErr

\* C10: a failed Write or ReadFrame is the last transport call of its
\* operation, which returns at once an error of that kind wrapping the
\* transport's error and no result value.
C10_NoRetryNoSwallow ==
  \A i \in 1..Len(log) :
    (IsIO(log[i]) /\ ~log[i].ok)
    => /\ i = Len(log)
       /\ pc = "done"
       /\ ret.err.kind = log[i].call
       /\ ret.err.cause = log[i].err
       /\ ret.err.cause # ""
       /\ ret.val = Nil
       /\ ret.nv = Nil
       /\ log[i].call = "Write" =>
            \A j \in 1..Len(log) : IsIO(log[j]) => j = i

C10_Witness ==
  /\ pc = "done"
  /\ op = "DoECDH"
  /\ Len(log) = 2
  /\ log[1].call = "Write" /\ log[1].ok
  /\ log[2].call = "ReadFrame" /\ log[2].err = "Read timeout"
  /\ ret.err = Err("ReadFrame", "Read timeout", 0)
  /\ ret.val = Nil

\* C11: for the identity query the status byte is not interpreted: whatever
\* frame byte 2 of the response is, sendCommand returns the bytes after the
\* 2-byte header, GetAppNameVersion unpacks the first 12 of them, and no
\* ResponseStatusNotOKError comes out of the identity query.
C11_IdentityNoStatus ==
  op = "GetAppNameVersion" =>
    /\ ret.err.kind # "ResponseStatusNotOK"
    /\ rx # Nil =>
         /\ pc = "restore" => res = From(rx, 2)
         /\ (pc = "done" /\ ret.err = NoErr) =>
              ret.nv = << Slice(rx, 2, 6), Slice(rx, 6, 10),
                          <<At(rx, 13) * 256 + At(rx, 12),
                            At(rx, 11) * 256 + At(rx, 10)>> >>

C11_Witness ==
  /\ pc = "done"
  /\ op = "GetAppNameVersion"
  /\ rx # Nil
  /\ At(rx, 2) = 255
  /\ ret.err = NoErr
  /\ ret.nv = << <<255, 0, 1, 2>>, <<3, 4, 5, 6>>, <<2569, 2055>> >>

\* the error kinds GetPubKey and DoECDH can return
KeyOpErrs == {"nil", "Write", "ReadFrame", "ResponseStatusNotOK", "all-zero"}

TablePairs ==
  << <<table.cmdGetNameVersion, table.rspGetNameVersion>>,
     <<table.cmdGetPubKey, table.rspGetPubKey>>,
     <<table.cmdDoECDH, table.rspDoECDH>> >>

TableShape ==
  /\ DOMAIN table = {"cmdGetNameVersion", "rspGetNameVersion", "cmdGetPubKey",
                     "rspGetPubKey", "cmdDoECDH", "rspDoECDH"}
  /\ \A i \in 1..3 :
       /\ TablePairs[i][1].code = 2 * i - 1
       /\ TablePairs[i][2].code = 2 * i
       /\ TablePairs[i][2].code # TablePairs[i][1].code
       /\ Endpoint(TablePairs[i][1]) = 3
       /\ Endpoint(TablePairs[i][2]) = 3
  /\ Cardinality({table[n].code : n \in DOMAIN table}) = 6

\* C13: the command table holds one request/response pair per operation,
\* the six opcodes are 1..6 and pairwise distinct, each response opcode is
\* one more than its request opcode, every endpoint is the application
\* endpoint, and no operation changes a descriptor.
C13_CommandTable == []TableShape /\ [][table' = table]_vars

C13_Witness ==
  /\ pc = "done"
  /\ op = "DoECDH"
  /\ ret.err = NoErr
  /\ cmd = table.cmdDoECDH
  /\ rsp = table.rspDoECDH
  /\ rsp.code = cmd.code + 1
  /\ At(tx, 1) = 5
  /\ At(rx, 1) = 6

\* the request id in the header byte of frame f
FrameId(f) == (At(f, 0) \div 32) % 4

\* C14: in every call the id stamped into the written request frame and the
\* id handed to ReadFrame are equal, and equal to 2, for all three public
\* operations.
C14_SameRequestId ==
  op \in PublicOps =>
    \A i \in 1..Len(log) :
      /\ log[i].call = "Write" => FrameId(log[i].frame) = 2
      /\ log[i].call = "ReadFrame" =>
           /\ log[i].id = 2
           /\ \E j \in 1..(i - 1) :
                log[j].call = "Write" /\ FrameId(log[j].frame) = log[i].id
           /\ log[i].ok => FrameId(rx) = 2

C14_Witness ==
  /\ pc = "done"
  /\ op = "GetAppNameVersion"
  /\ ret.err = NoErr
  /\ Len(log) = 4
  /\ log[2].call = "Write" /\ FrameId(log[2].frame) = 2
  /\ log[3].call = "ReadFrame" /\ log[3].id = 2 /\ log[3].ok

\* C15: in GetAppNameVersion the Write and the ReadFrame are both made
\* while the read deadline is 2, and no frame is written unless
\* SetReadTimeout(2) has succeeded first.
C15_NarrowedBeforeCall ==
  op = "GetAppNameVersion" =>
    \A i \in 1..Len(log) :
      IsIO(log[i]) =>
        /\ log[i].timeout = 2
        /\ i >= 2
        /\ log[1].call = "SetReadTimeout"
        /\ log[1].arg = 2
        /\ log[1].ok

C15_Witness ==
  /\ pc = "restore"
  /\ op = "GetAppNameVersion"
  /\ Len(log) = 3
  /\ log[1].call = "SetReadTimeout" /\ log[1].timeout = 0 /\ log[1].ok
  /\ log[2].call = "Write" /\ log[2].timeout = 2
  /\ log[3].call = "ReadFrame" /\ log[3].timeout = 2

\* C16: the frame handed to Write has the size of the request descriptor's
\* length class (2 bytes for the identity query, 129 for GetPubKey and
\* DoECDH), byte 1 is the request opcode, the payload follows from byte 2
\* and every byte after the payload is zero.
C16_FrameLayout ==
  op \in PublicOps =>
    \A i \in 1..Len(log) :
      log[i].call = "Write" =>
        LET f == log[i].frame
            n == IF op = "GetAppNameVersion" THEN 0
                 ELSE IF op = "GetPubKey" THEN 65 ELSE 97
        IN  /\ Len(f) = (IF op = "GetAppNameVersion" THEN 2 ELSE 129)
            /\ Len(f) = 1 + Bytelen(cmd.cmdLen)
            /\ At(f, 1) = cmd.code
            /\ Len(data) = n
            /\ \A k \in 2..(Len(f) - 1) :
                 At(f, k) = (IF k < 2 + n THEN At(data, k - 2) ELSE 0)

C16_Witness ==
  /\ pc = "read"
  /\ op = "GetPubKey"
  /\ args.userSecret = Ramp(32, 1)
  /\ args.requireTouch
  /\ Len(tx) = 129
  /\ At(tx, 1) = 3
  /\ At(tx, 65) = 32
  /\ At(tx, 66) = 1
  /\ From(tx, 67) = Zeros(62)

\* C17: DoECDH returns the degenerate-secret error only when its Write and
\* its ReadFrame succeeded and the status byte is OK; a response with a
\* non-OK status and an all-zero payload yields the status error; a failed
\* read yields the read error, a failed write the write error.
C17_ErrorPrecedence ==
  (pc = "done" /\ op = "DoECDH") =>
    /\ ret.err.kind = "all-zero" =>
         /\ Len(IO) = 2
         /\ IO[1].ok
         /\ IO[2].ok
         /\ Answered(StatusOK)
    /\ (rx # Nil /\ At(rx, 2) # StatusOK) => ret.err.kind = "ResponseStatusNotOK"
    /\ (Len(IO) = 2 /\ ~IO[2].ok) => ret.err.kind = "ReadFrame"
    /\ (Len(IO) >= 1 /\ ~IO[1].ok) => ret.err.kind = "Write"
    /\ ret.err.kind = "ResponseStatusNotOK" => (Len(IO) = 2 /\ IO[2].ok)

C17_Witness ==
  /\ pc = "done"
  /\ op = "DoECDH"
  /\ rx # Nil
  /\ At(rx, 2) = StatusTouchTimeout
  /\ Slice(rx, 3, 35) = Zeros(32)
  /\ ret.err = Err("ResponseStatusNotOK", "", 2)

\* C18: through the public operations the payload handed to sendCommand is
\* 0 bytes (identity query), 65 bytes (GetPubKey) or 97 bytes (DoECDH),
\* never more than the request frame holds after its 2-byte header, and the
\* data-too-large error is never returned.
C18_OversizeUnreachable ==
  op \in PublicOps =>
    /\ ret.err.kind # "data too large"
    /\ ret.err.kind # "NewFrameBuf"
    /\ pc # "idle" =>
         \/ ret.err.kind = "SetReadTimeout" /\ Len(log) = 1
         \/ /\ Len(data) = (IF op = "GetAppNameVersion" THEN 0
                            ELSE IF op = "GetPubKey" THEN 65 ELSE 97)
            /\ Len(data) <= (IF op = "GetAppNameVersion" THEN 2 ELSE 129) - 2
            /\ Len(data) <= (1 + Bytelen(cmd.cmdLen)) - 2
            /\ pc = "done" => Len(IO) >= 1

C18_Witness ==
  /\ pc = "read"
  /\ op = "DoECDH"
  /\ Len(args.domainString) > 32
  /\ Len(data) = 97
  /\ Len(tx) = 129

\* d without its trailing zero bytes
RECURSIVE StripZeros(_)
StripZeros(d) ==
  IF Len(d) > 0 /\ d[Len(d)] = 0 THEN StripZeros(SubSeq(d, 1, Len(d) - 1))
  ELSE d

\* the domain strings of at most 32 bytes that differ from d at most by
\* trailing zero bytes
ZeroTwins(d) ==
  { e \in DomainStrings : Len(e) <= 32 /\ StripZeros(e) = StripZeros(d) }

\* the request frame the operation in progress builds for domain string e
\* and its other arguments
FrameFor(e) ==
  sendCommand_frame(cmd,
    keyParameters(e, args.userSecret, args.requireTouch)
      \o args.theirPubKey).tx

\* C19: domain strings of at most 32 bytes that differ only by trailing
\* zero bytes fold to the same field: the frame GetPubKey or DoECDH has
\* written for one of them is byte for byte the frame it builds for the
\* other with the same other arguments.
C19_FoldNotInjective ==
  (pc = "read" /\ op \in KeyOps /\ Len(args.domainString) <= 32) =>
    \A e \in ZeroTwins(args.domainString) :
      /\ tx = FrameFor(e)
      /\ Slice(tx, 2, 34) = StripZeros(e) \o Zeros(32 - Len(StripZeros(e)))

C19_Witness ==
  /\ pc = "read"
  /\ op = "DoECDH"
  /\ args.domainString = <<120>>
  /\ <<120, 0>> \in ZeroTwins(args.domainString)
  /\ <<120, 0>> # args.domainString
  /\ tx = FrameFor(<<120, 0>>)

\* C20: when SetReadTimeout(2) fails GetAppNameVersion returns that error
\* without writing or reading; when SetReadTimeout(0) fails after a
\* successful read it returns an error and no name/version record.
C20_TimeoutErrors ==
  (pc = "done" /\ op = "GetAppNameVersion") =>
    /\ ~log[1].ok =>
         /\ Len(log) = 1
         /\ ret = [val |-> Nil, nv |-> Nil,
                   err |-> Err("SetReadTimeout", log[1].err, 0)]
         /\ tx = Nil
         /\ rx = Nil
    /\ (Len(log) = 4 /\ ~log[4].ok) =>
         /\ log[4].call = "SetReadTimeout"
         /\ log[4].arg = 0
         /\ log[3].call = "ReadFrame"
         /\ log[3].ok
         /\ rx # Nil
         /\ ret = [val |-> Nil, nv |-> Nil,
                   err |-> Err("SetReadTimeout", log[4].err, 0)]

C20_Witness ==
  /\ pc = "done"
  /\ op = "GetAppNameVersion"
  /\ Len(log) = 4
  /\ log[3].ok
  /\ ~log[4].ok
  /\ rx # Nil
  /\ ret.nv = Nil
  /\ ret.err.kind = "SetReadTimeout"

====
